---- MODULE Spec2Model ----
(***************************************************************************)
(* directus-sync: the restore command (function run), the collection       *)
(* restorers it drives, and the schema operations of SnapshotClient.       *)
(*                                                                         *)
(* Spec         one execution of the restore command: schema restore,      *)
(*              clean up of every collection, then restore passes until    *)
(*              a pass asks for no retry.                                  *)
(* SpecSnapshot a SnapshotClient whose methods restore(), plan() and       *)
(*              dump() are called in any order, in single-file or in       *)
(*              split-file mode, against a live instance whose schema may  *)
(*              change between the calls.                                  *)
(* SpecHttp     one request to an endpoint of the extension: it passes     *)
(*              ensureIsAdminHandler, then the route, and an error of      *)
(*              either reaches errorHandler.                               *)
(***************************************************************************)
EXTENDS Integers, Sequences, FiniteSets

\* ------------------------------------------------------------------ bounds
NumCollections == 2
NumRecords == 2
MaxPasses == 4
MaxEntries == 2

\* --------------------------------------------------------------- constants
Collections == 1..NumCollections
Records == 1..NumRecords

\* The names of the collections and fields of a schema, the values its
\* entries carry besides their names, and its info values.
CollectionNames == {1}
FieldNames == {1}
Metas == {1, 2}
Versions == {1, 2}

CollectionEntries == [collection : CollectionNames]
FieldEntries == [collection : CollectionNames, field : FieldNames, meta : Metas]
RelationEntries == [collection : CollectionNames, field : FieldNames, meta : Metas]

SeqsUpTo(S, n) == UNION {[1..k -> S] : k \in 0..n}

\* Snapshot: { version, collections, fields, relations }.
Snapshots ==
  {s \in [version : Versions,
          collections : SeqsUpTo(CollectionEntries, MaxEntries),
          fields : SeqsUpTo(FieldEntries, MaxEntries),
          relations : SeqsUpTo(RelationEntries, MaxEntries)] :
     Len(s.collections) + Len(s.fields) + Len(s.relations) <= MaxEntries}

\* No snapshot, and what loading a dump that cannot be read gives.
NoSnapshot == [version |-> 0, collections |-> <<>>, fields |-> <<>>,
               relations |-> <<>>]
Unreadable == [version |-> -1, collections |-> <<>>, fields |-> <<>>,
               relations |-> <<>>]

SNAPSHOT_JSON == "snapshot.json"
INFO_JSON == "info.json"
COLLECTIONS_DIR == "collections"
FIELDS_DIR == "fields"
RELATIONS_DIR == "relations"

\* A record without Dependency Reference, and an identifier that is the
\* identifier of no record of any collection.
NoRef == 0
MissingId == NumRecords + 1
RefValues == {NoRef} \cup Records \cup {MissingId}

VARIABLES
  pc,            \* position of run: "schema", "cleanup", "while", "for", "done", "failed";
                 \* of a request: "request", "route", "error", "end"
  i,             \* position of the running for-of loop in collections
  stop,          \* run: let stop
  index,         \* run: let index
  pass,          \* number of passes started (iterations of the while loop)
  iterLog,       \* the numbers logged by `---- Restore: iteration n ----`
  cleanUpLog,    \* the collections cleanUp() was called on, in call order
  passLog,       \* the collections restore() was called on in the current pass
  passRetry,     \* what these restore() calls returned
  restoreCount,  \* restore() calls per collection in the whole run
  err,           \* the call that raised the error that ended the run
  owner,         \* the collection of each record
  ref,           \* the Dependency Reference of each record
  appliedPass,   \* the pass in which each record was applied, 0: not applied
  disk,          \* the files under dumpPath: path -> content
  splitFiles,    \* SnapshotClient.splitFiles
  numberOfFiles, \* dump: what saveData returned, 0 when dump did not run last
  before,        \* the paths under dumpPath when the last dump() started
  planCounts,    \* the counts plan() logged, for collections, fields, relations
  remote,        \* the schema of the live instance
  lastOp,        \* the SnapshotClient method that ran last
  diffCalls,     \* the snapshots sent with schemaDiff by that method
  lastDiff,      \* the diffs these requests returned
  applyCalls,    \* the diffs sent with schemaApply by that method
  lastLog,       \* what that method logged
  inflight,      \* calls of run that were started and have not completed
  inFlightMax,   \* the greatest number of calls in flight at once so far
  req,           \* the request: accountability and its user and admin
  res,           \* the response: headersSent, statusCode, the bodies sent
  resAtCall,     \* the response when the handler that ran last was called
  error,         \* the error the request ended with
  nextCalls,     \* the arguments next was called with by that handler
  handler        \* the handler that ran last

driverVars == <<pc, i, stop, index, pass, iterLog, cleanUpLog, passLog,
                passRetry, restoreCount, err>>
recordVars == <<owner, ref, appliedPass>>
snapshotVars == <<disk, splitFiles, numberOfFiles, before, planCounts, remote,
                  lastOp, diffCalls, lastDiff, applyCalls, lastLog>>
callVars == <<inflight, inFlightMax>>
httpVars == <<req, res, resAtCall, error, nextCalls, handler>>
vars == <<driverVars, recordVars, snapshotVars, callVars, httpVars>>

\* ------------------------------------------------------- remote instance
\* The diff of "no difference".
Undefined == [hash |-> NoSnapshot, diff |-> NoSnapshot]

\* The live instance's answer to schemaDiff(snapshot).
schemaDiff(snapshot, live) ==
  IF snapshot = live THEN Undefined ELSE [hash |-> live, diff |-> snapshot]

\* The live instance's schema after schemaApply(d).
schemaApply(d, live) == d.diff

\* --------------------------------------------------------- SnapshotClient
\* The path of a file of the dump directory: dir/sub/name.json, or the file
\* dir of the directory itself (sub = 0: no sub-directory).
topFile(file) == [dir |-> file, sub |-> 0, name |-> 0]
collectionFile(c) == [dir |-> COLLECTIONS_DIR, sub |-> 0, name |-> c.collection]
fieldFile(f) == [dir |-> FIELDS_DIR, sub |-> f.collection, name |-> f.field]
relationFile(r) == [dir |-> RELATIONS_DIR, sub |-> r.collection, name |-> r.field]

\* decomposeData(data): the files of the split layout, in writing order.
decomposeData(data) ==
  <<[path |-> topFile(INFO_JSON), content |-> [version |-> data.version]]>>
  \o [k \in 1..Len(data.collections) |->
        [path |-> collectionFile(data.collections[k]),
         content |-> data.collections[k]]]
  \o [k \in 1..Len(data.fields) |->
        [path |-> fieldFile(data.fields[k]), content |-> data.fields[k]]]
  \o [k \in 1..Len(data.relations) |->
        [path |-> relationFile(data.relations[k]),
         content |-> data.relations[k]]]

\* A saveData that did not clean the directory would keep what is there.
removeNothing(d) == d

\* removeSync(dumpPath); mkdirpSync(dumpPath): an empty directory.
removeSync(d) == [p \in {} |-> d[p]]

\* writeJsonSync(filePath, content): the file is created or overwritten.
writeJsonSync(d, file) ==
  [p \in DOMAIN d \cup {file.path} |->
     IF p = file.path THEN file.content ELSE d[p]]

\* Lines 73-78: the files from the k-th on are written, in order.
RECURSIVE writeFiles(_, _, _)
writeFiles(d, files, k) ==
  IF k > Len(files) THEN d
  ELSE writeFiles(writeJsonSync(d, files[k]), files, k + 1)

\* saveData(data): the directory after the save and the number returned.
saveData(d, data, split) ==
  LET clean == removeSync(d) IN
  IF split
    THEN LET files == decomposeData(data) IN
         [disk |-> writeFiles(clean, files, 1), files |-> Len(files)]
    ELSE [disk |-> writeJsonSync(clean, [path |-> topFile(SNAPSHOT_JSON),
                                         content |-> data]),
          files |-> 1]

\* The order loadJsonFilesRecursively reads the files of a directory in.
Before(p, q) == p.sub < q.sub \/ (p.sub = q.sub /\ p.name < q.name)

RECURSIVE sortedPaths(_)
sortedPaths(ps) ==
  IF ps = {} THEN <<>>
  ELSE LET m == CHOOSE p \in ps : \A q \in ps \ {p} : Before(p, q)
       IN <<m>> \o sortedPaths(ps \ {m})

\* loadJsonFilesRecursively(dir): the contents of the files under dir.
loadJsonFilesRecursively(d, dir) ==
  LET ps == sortedPaths({p \in DOMAIN d : p.dir = dir})
  IN [k \in 1..Len(ps) |-> d[ps[k]]]

\* loadData() on the directory d: readJsonSync throws when its file is
\* missing.
loadFrom(d, split) ==
  IF split
    THEN IF topFile(INFO_JSON) \in DOMAIN d
           THEN [version |-> d[topFile(INFO_JSON)].version,
                 collections |-> loadJsonFilesRecursively(d, COLLECTIONS_DIR),
                 fields |-> loadJsonFilesRecursively(d, FIELDS_DIR),
                 relations |-> loadJsonFilesRecursively(d, RELATIONS_DIR)]
           ELSE Unreadable
    ELSE IF topFile(SNAPSHOT_JSON) \in DOMAIN d
           THEN d[topFile(SNAPSHOT_JSON)]
           ELSE Unreadable

loadData == loadFrom(disk, splitFiles)

\* loadData() throws: diffSnapshot() ends before its request is made.
loadThrows == loadData = Unreadable

diffSnapshot == schemaDiff(loadData, remote)

\* getSnapshot(): the schema of the live instance.
getSnapshot == remote

\* restore() without the test of line 127 would apply whatever it got.
restoreAppliesAlways(d) == TRUE

\* restore(), line 127: the else branch is taken unless the diff is undefined.
restoreApplies(d) == d # Undefined

\* Whether restore() ends with an error. outcome: "ok", or the request the
\* live instance rejects ("diffError", "applyError") if it is made.
restoreThrows(outcome) ==
  \/ loadThrows
  \/ outcome = "diffError"
  \/ outcome = "applyError" /\ restoreApplies(diffSnapshot)

\* restore() and plan() leave the dump and the configuration as they are.
dumpKept ==
  /\ disk' = disk
  /\ splitFiles' = splitFiles
  /\ numberOfFiles' = 0
  /\ before' = {}

\* The requests and log lines of restore().
restoreEffect(outcome) ==
  LET d == diffSnapshot
      got == ~loadThrows /\ outcome # "diffError"
  IN
  /\ lastOp' = "restore"
  /\ dumpKept
  /\ planCounts' = <<>>
  /\ diffCalls' = IF loadThrows THEN <<>> ELSE <<loadData>>
  /\ lastDiff' = IF got THEN <<d>> ELSE <<>>
  /\ applyCalls' = IF got /\ restoreApplies(d) THEN <<d>> ELSE <<>>
  /\ remote' = IF got /\ restoreApplies(d) /\ ~restoreThrows(outcome)
                 THEN schemaApply(d, remote) ELSE remote
  /\ lastLog' = IF restoreThrows(outcome) THEN <<>>
                ELSE IF restoreApplies(d) THEN <<"Changes applied">>
                ELSE <<"No changes to apply">>

\* A plan() that logged its counts whatever the diff is would log zero
\* changes for an undefined diff.
countsAlways(d) ==
  IF d = Undefined THEN <<0, 0, 0>>
  ELSE <<Len(d.diff.collections), Len(d.diff.fields), Len(d.diff.relations)>>

\* plan(), lines 141-153: the counts logged, none for an undefined diff.
counts(d) ==
  IF d = Undefined THEN <<>>
  ELSE <<Len(d.diff.collections), Len(d.diff.fields), Len(d.diff.relations)>>

\* plan(), lines 141-153: the lines logged.
planLog(d) ==
  IF d = Undefined
    THEN <<"No changes to apply">>
    ELSE <<"Found changes in collections", "Found changes in fields",
           "Found changes in relations">>

\* A plan() that had the else branch of restore() would apply the diff.
planApplying(outcome) ==
  LET d == diffSnapshot
      got == ~loadThrows /\ outcome # "diffError"
  IN
  /\ lastOp' = "plan"
  /\ dumpKept
  /\ planCounts' = <<>>
  /\ diffCalls' = IF loadThrows THEN <<>> ELSE <<loadData>>
  /\ outcome # "applyError"
  /\ lastDiff' = IF got THEN <<d>> ELSE <<>>
  /\ applyCalls' = IF got /\ d # Undefined THEN <<d>> ELSE <<>>
  /\ remote' = IF got /\ d # Undefined THEN schemaApply(d, remote) ELSE remote
  /\ lastLog' = IF ~got THEN <<>>
                ELSE IF d # Undefined THEN <<"Changes applied">>
                ELSE <<"No changes to apply">>

\* The requests and log lines of plan().
planEffect(outcome) ==
  LET d == diffSnapshot
      got == ~loadThrows /\ outcome # "diffError"
  IN
  /\ lastOp' = "plan"
  /\ dumpKept
  /\ diffCalls' = IF loadThrows THEN <<>> ELSE <<loadData>>
  /\ remote' = remote
  /\ applyCalls' = <<>>
  /\ outcome # "applyError"
  /\ lastDiff' = IF got THEN <<d>> ELSE <<>>
  /\ lastLog' = IF got THEN planLog(d) ELSE <<>>
  /\ planCounts' = IF got THEN counts(d) ELSE <<>>

\* dump(): the snapshot of the live instance is saved under dumpPath.
dumpEffect ==
  LET saved == saveData(disk, getSnapshot, splitFiles) IN
  /\ lastOp' = "dump"
  /\ disk' = saved.disk
  /\ numberOfFiles' = saved.files
  /\ before' = DOMAIN disk
  /\ splitFiles' = splitFiles
  /\ planCounts' = <<>>
  /\ remote' = remote
  /\ diffCalls' = <<>>
  /\ lastDiff' = <<>>
  /\ applyCalls' = <<>>
  /\ lastLog' = <<"Saved">>

\* ---------------------------------------------------- collection restorer
\* Whether every Dependency Reference of record r resolves, ap being the
\* pass each record was applied in.
Resolved(r, ap) ==
  \/ ref[r] = NoRef
  \/ ref[r] \in Records /\ ap[ref[r]] # 0

\* restore() of collection c in pass p over the records k, k+1, ...: each
\* record not yet applied is written when its reference resolves.
RECURSIVE restoreFrom(_, _, _, _)
restoreFrom(k, c, ap, p) ==
  IF k > NumRecords THEN ap
  ELSE IF owner[k] = c /\ ap[k] = 0 /\ Resolved(k, ap)
    THEN restoreFrom(k + 1, c, [ap EXCEPT ![k] = p], p)
    ELSE restoreFrom(k + 1, c, ap, p)

\* What restore() returns: whether a record of c was skipped.
retryNeeded(c, ap) == \E r \in Records : owner[r] = c /\ ap[r] = 0

\* ----------------------------------------------------------- http handlers
\* The values of accountability.user and accountability.admin.
JsValues == {"undefined", "null", "false", "true", "0", "''", "'id'"}

\* req.accountability is undefined, null, or an object with user and admin.
Requests ==
  [accountability : {"undefined", "null"}, user : {"undefined"},
   admin : {"undefined"}]
  \cup [accountability : {"object"}, user : JsValues, admin : JsValues]

\* next(): no error.
NoError == [name |-> "none", statusCode |-> 0, message |-> "undefined"]

\* createError(status, message) of http-errors.
createError(status, message) ==
  [name |-> "HttpError", statusCode |-> status, message |-> message]

\* What a route may throw: an HTTP error, or another value, whatever
\* statusCode and message it has.
Errors ==
  [name : {"HttpError"}, statusCode : {400, 404, 500, 503}, message : {"'m'"}]
  \cup [name : {"Error"}, statusCode : {0, 404}, message : {"undefined", "'m'"}]

isHttpError(e) == e.name = "HttpError"

\* accountability?.user
optionalUser(r) == IF r.accountability = "object" THEN r.user ELSE "undefined"

\* accountability.admin is read only of an accountability that has a user.
adminOf(r) == IF r.accountability = "object" THEN r.admin ELSE "undefined"

\* v == null
looseNull(v) == v \in {"undefined", "null"}

\* v === false would let the other falsy values pass.
strictFalse(v) == v = "false"

\* !v
not(v) == v \in {"undefined", "null", "false", "0", "''"}

\* ensureIsAdminHandler(req, _res, next): the arguments of its next calls.
ensureIsAdminHandler(r) ==
  IF looseNull(optionalUser(r))
    THEN <<createError(401, "You must be logged in to access this.")>>
  ELSE IF not(adminOf(r))
    THEN <<createError(403, "You do not have permission to access this.")>>
  ELSE <<NoError>>

\* An errorHandler that trusted any statusCode property.
statusCodeOfAny(e) == e.statusCode

\* errorHandler, lines 42-46: the status of the response.
statusCodeOf(e) == IF isHttpError(e) THEN e.statusCode ELSE 500

\* res.status(code); res.json(body)
send(r, code, body) ==
  [headersSent |-> TRUE, statusCode |-> code, body |-> Append(r.body, body)]

\* A response nothing was written to.
NoResponse == [headersSent |-> FALSE, statusCode |-> 200, body |-> <<>>]

\* No request is being handled.
InitHttp ==
  /\ req = [accountability |-> "undefined", user |-> "undefined",
            admin |-> "undefined"]
  /\ res = NoResponse
  /\ resAtCall = NoResponse
  /\ error = NoError
  /\ nextCalls = <<>>
  /\ handler = "none"

\* ----------------------------------------------------------------- run
\* loadCollections(): the collections in declaration order.
collections == [k \in 1..NumCollections |-> k]

\* A run that caught the error of an awaited call would go on at p.
onThrowContinue(p) == p

\* An error raised by an awaited call leaves run and reaches
\* .catch(logErrorAndStop), whatever position p run was to go on at.
onThrow(p) == "failed"

\* Without line 34 stop would keep the value of the pass before.
stopKept(s) == s

\* Line 34: stop = true at the start of each pass.
stopAtPassStart(s) == TRUE

\* stop = !retry would let the last collection of the pass decide.
stopIsLastRetry(s, retry) == ~retry

\* Lines 36-39: if (retry) stop = false.
stopAfter(s, retry) == IF retry THEN FALSE ELSE s

\* A break on retry would leave the for-of loop of the pass.
forNextBreak(k, retry) == IF retry THEN NumCollections + 1 ELSE k + 1

\* Line 35: the for-of loop goes to the next collection whatever the call
\* returned.
forNext(k, retry) == k + 1

\* A clean up loop that stepped by two would leave collections out.
cleanUpNextSkip(k) == k + 2

\* Line 25: the clean up loop visits the next collection.
cleanUpNext(k) == k + 1

\* A call that was not awaited would still be in flight when run goes on.
notAwaited(n) == n

\* await: run goes on when the call it started has completed, n being the
\* calls in flight while it runs.
awaited(n) == n - 1

\* A call of run starts and is awaited.
awaitCall ==
  /\ inFlightMax' = IF inflight + 1 > inFlightMax THEN inflight + 1 ELSE inFlightMax
  /\ inflight' = awaited(inflight + 1)

\* Line 18: await Container.get(SnapshotClient).restore()
RunSchema ==
  /\ pc = "schema"
  /\ \E outcome \in {"ok", "diffError", "applyError"} :
       /\ restoreEffect(outcome)
       /\ IF restoreThrows(outcome)
            THEN pc' = onThrow("cleanup") /\ err' = "schema"
            ELSE pc' = "cleanup" /\ err' = err
  /\ i' = 1
  /\ awaitCall
  /\ UNCHANGED <<stop, index, pass, iterLog, cleanUpLog, passLog, passRetry,
                 restoreCount, recordVars>>
  /\ UNCHANGED httpVars

\* Lines 25-27: await collection.cleanUp() for the next collection.
RunCleanUp ==
  /\ pc = "cleanup"
  /\ i <= NumCollections
  /\ cleanUpLog' = Append(cleanUpLog, collections[i])
  /\ \E outcome \in {"ok", "throw"} :
       IF outcome = "ok"
         THEN pc' = pc /\ err' = err
         ELSE pc' = onThrow(pc) /\ err' = "cleanUp"
  /\ i' = cleanUpNext(i)
  /\ awaitCall
  /\ UNCHANGED <<stop, index, pass, iterLog, passLog, passRetry, restoreCount,
                 recordVars, snapshotVars>>
  /\ UNCHANGED httpVars

\* Lines 30-31: the clean up loop is over; let stop = false, index = 1.
RunEnterLoop ==
  /\ pc = "cleanup"
  /\ i > NumCollections
  /\ stop' = FALSE
  /\ index' = 1
  /\ pc' = "while"
  /\ UNCHANGED <<i, pass, iterLog, cleanUpLog, passLog, passRetry, restoreCount,
                 err, recordVars, snapshotVars, callVars>>
  /\ UNCHANGED httpVars

\* Lines 32-34: while (!stop) is entered: the iteration is logged, stop = true.
RunPassStart ==
  /\ pc = "while"
  /\ ~stop
  /\ pass < MaxPasses
  /\ pass' = pass + 1
  /\ iterLog' = Append(iterLog, index)
  /\ index' = index + 1
  /\ stop' = stopAtPassStart(stop)
  /\ i' = 1
  /\ passLog' = <<>>
  /\ passRetry' = <<>>
  /\ pc' = "for"
  /\ UNCHANGED <<cleanUpLog, restoreCount, err, recordVars, snapshotVars,
                 callVars>>
  /\ UNCHANGED httpVars

\* Line 32: while (!stop) is left; run returns.
RunReturn ==
  /\ pc = "while"
  /\ stop
  /\ pc' = "done"
  /\ UNCHANGED <<i, stop, index, pass, iterLog, cleanUpLog, passLog, passRetry,
                 restoreCount, err, recordVars, snapshotVars, callVars>>
  /\ UNCHANGED httpVars

\* Lines 35-40: const retry = await collection.restore(); if (retry) stop = false.
RunRestore ==
  /\ pc = "for"
  /\ i <= NumCollections
  /\ LET c == collections[i]
         ap == restoreFrom(1, c, appliedPass, pass)
         retry == retryNeeded(c, ap)
     IN /\ passLog' = Append(passLog, c)
        /\ restoreCount' = [restoreCount EXCEPT ![c] = @ + 1]
        /\ \E outcome \in {"ok", "throw"} :
             IF outcome = "ok"
               THEN /\ appliedPass' = ap
                    /\ passRetry' = Append(passRetry, retry)
                    /\ stop' = stopAfter(stop, retry)
                    /\ i' = forNext(i, retry)
                    /\ pc' = pc
                    /\ err' = err
               ELSE /\ appliedPass' = appliedPass
                    /\ passRetry' = passRetry
                    /\ stop' = stop
                    /\ i' = i + 1
                    /\ pc' = onThrow(pc)
                    /\ err' = "restore"
  /\ awaitCall
  /\ UNCHANGED <<index, pass, iterLog, cleanUpLog, owner, ref, snapshotVars>>
  /\ UNCHANGED httpVars

\* Line 41: the for-of loop is over; index++, back to while (!stop).
RunPassEnd ==
  /\ pc = "for"
  /\ i > NumCollections
  /\ index' = index + 1
  /\ pc' = "while"
  /\ UNCHANGED <<i, stop, pass, iterLog, cleanUpLog, passLog, passRetry,
                 restoreCount, err, recordVars, snapshotVars, callVars>>
  /\ UNCHANGED httpVars

\* The records are numbered in the order the collections are declared in.
Monotone(f) == \A r \in Records, s \in Records : r <= s => f[r] <= f[s]

InitDriver ==
  /\ i = 1
  /\ stop = FALSE
  /\ index = 1
  /\ pass = 0
  /\ iterLog = <<>>
  /\ cleanUpLog = <<>>
  /\ passLog = <<>>
  /\ passRetry = <<>>
  /\ restoreCount = [c \in Collections |-> 0]
  /\ err = "none"
  /\ inflight = 0
  /\ inFlightMax = 0

\* No method of SnapshotClient has run.
InitSnapshot ==
  /\ lastOp = "none"
  /\ diffCalls = <<>>
  /\ lastDiff = <<>>
  /\ applyCalls = <<>>
  /\ lastLog = <<>>
  /\ planCounts = <<>>
  /\ numberOfFiles = 0
  /\ before = {}

\* The schema a restore run finds dumped, and the schemas the live instance
\* may have then: the same one, or one that lacks a field.
StoredSchema ==
  [version |-> 1,
   collections |-> <<[collection |-> 1]>>,
   fields |-> <<[collection |-> 1, field |-> 1, meta |-> 1]>>,
   relations |-> <<>>]
LiveSchemas == {StoredSchema, [StoredSchema EXCEPT !.fields = <<>>]}

Init ==
  /\ pc = "schema"
  /\ InitDriver
  /\ InitSnapshot
  /\ InitHttp
  /\ owner \in {f \in [Records -> Collections] : Monotone(f)}
  /\ ref \in [Records -> RefValues]
  /\ appliedPass = [r \in Records |-> 0]
  /\ splitFiles \in BOOLEAN
  /\ disk = saveData(<<>>, StoredSchema, splitFiles).disk
  /\ remote \in LiveSchemas

Next ==
  \/ RunSchema
  \/ RunCleanUp
  \/ RunEnterLoop
  \/ RunPassStart
  \/ RunReturn
  \/ RunRestore
  \/ RunPassEnd

Spec == Init /\ [][Next]_vars

\* ------------------------------------------------- SnapshotClient, called
\* await snapshotClient.restore()
SnapshotRestore ==
  /\ \E outcome \in {"ok", "diffError", "applyError"} : restoreEffect(outcome)
  /\ UNCHANGED <<driverVars, recordVars, callVars>>
  /\ UNCHANGED httpVars

\* await snapshotClient.plan()
SnapshotPlan ==
  /\ \E outcome \in {"ok", "diffError"} : planEffect(outcome)
  /\ UNCHANGED <<driverVars, recordVars, callVars>>
  /\ UNCHANGED httpVars

\* await snapshotClient.dump()
SnapshotDump ==
  /\ dumpEffect
  /\ UNCHANGED <<driverVars, recordVars, callVars>>
  /\ UNCHANGED httpVars

\* What the method that ran last did is forgotten.
forget ==
  /\ lastOp' = "none"
  /\ diffCalls' = <<>>
  /\ lastDiff' = <<>>
  /\ applyCalls' = <<>>
  /\ lastLog' = <<>>
  /\ planCounts' = <<>>
  /\ numberOfFiles' = 0
  /\ before' = {}

\* The schema of the live instance is changed by its users: its version,
\* or an entry that is added to or removed from one of its lists.
RemoteChange ==
  /\ \E s \in
        {[remote EXCEPT !.version = v] : v \in Versions}
        \cup {[remote EXCEPT !.collections = Append(@, e)] : e \in CollectionEntries}
        \cup {[remote EXCEPT !.fields = Append(@, e)] : e \in FieldEntries}
        \cup {[remote EXCEPT !.relations = Append(@, e)] : e \in RelationEntries}
        \cup {[remote EXCEPT !.collections = SubSeq(@, 1, Len(@) - 1)],
              [remote EXCEPT !.fields = SubSeq(@, 1, Len(@) - 1)],
              [remote EXCEPT !.relations = SubSeq(@, 1, Len(@) - 1)]} :
        /\ s # remote
        /\ Len(s.collections) + Len(s.fields) + Len(s.relations) <= MaxEntries
        /\ remote' = s
  /\ forget
  /\ UNCHANGED <<driverVars, recordVars, callVars, disk, splitFiles>>
  /\ UNCHANGED httpVars

\* The tool is run again with the other value of config.splitFiles.
Configure ==
  /\ splitFiles' = ~splitFiles
  /\ forget
  /\ UNCHANGED <<driverVars, recordVars, callVars, disk, remote>>
  /\ UNCHANGED httpVars

InitClient ==
  /\ pc = "client"
  /\ InitDriver
  /\ InitSnapshot
  /\ InitHttp
  /\ owner = [r \in Records |-> 1]
  /\ ref = [r \in Records |-> NoRef]
  /\ appliedPass = [r \in Records |-> 0]
  /\ splitFiles \in BOOLEAN
  /\ disk = <<>>
  /\ remote \in Snapshots

NextClient ==
  \/ SnapshotRestore
  \/ SnapshotPlan
  \/ SnapshotDump
  \/ RemoteChange
  \/ Configure

SpecSnapshot == InitClient /\ [][NextClient]_vars

\* ------------------------------------------------------ a request, handled
\* router.use(ensureIsAdminHandler): next(err) goes to the error handlers,
\* next() to the route.
EnsureIsAdmin ==
  /\ pc = "request"
  /\ handler' = "ensureIsAdminHandler"
  /\ nextCalls' = ensureIsAdminHandler(req)
  /\ resAtCall' = res
  /\ error' = nextCalls'[1]
  /\ pc' = IF nextCalls'[1] = NoError THEN "route" ELSE "error"
  /\ UNCHANGED <<req, res>>
  /\ UNCHANGED <<i, stop, index, pass, iterLog, cleanUpLog, passLog, passRetry,
                 restoreCount, err, recordVars, snapshotVars, callVars>>

\* The route answers, or throws before or after it began to answer.
Route ==
  /\ pc = "route"
  /\ handler' = "route"
  /\ nextCalls' = <<>>
  /\ resAtCall' = res
  /\ \/ /\ res' = send(res, 200, [message |-> "'ok'"])
        /\ error' = error
        /\ pc' = "end"
     \/ /\ \E e \in Errors : error' = e
        /\ \E sent \in BOOLEAN :
             res' = IF sent THEN send(res, 200, [message |-> "'ok'"]) ELSE res
        /\ pc' = "error"
  /\ UNCHANGED req
  /\ UNCHANGED <<i, stop, index, pass, iterLog, cleanUpLog, passLog, passRetry,
                 restoreCount, err, recordVars, snapshotVars, callVars>>

\* errorHandler(err, _req, res, next)
ErrorHandler ==
  /\ pc = "error"
  /\ handler' = "errorHandler"
  /\ resAtCall' = res
  /\ IF res.headersSent
       THEN /\ nextCalls' = <<error>>
            /\ res' = res
       ELSE /\ nextCalls' = <<>>
            /\ res' = send(res, statusCodeOf(error), [message |-> error.message])
  /\ pc' = "end"
  /\ UNCHANGED <<req, error>>
  /\ UNCHANGED <<i, stop, index, pass, iterLog, cleanUpLog, passLog, passRetry,
                 restoreCount, err, recordVars, snapshotVars, callVars>>

InitServer ==
  /\ pc = "request"
  /\ InitDriver
  /\ InitSnapshot
  /\ owner = [r \in Records |-> 1]
  /\ ref = [r \in Records |-> NoRef]
  /\ appliedPass = [r \in Records |-> 0]
  /\ splitFiles = FALSE
  /\ disk = <<>>
  /\ remote = StoredSchema
  /\ req \in Requests
  /\ res = NoResponse
  /\ resAtCall = NoResponse
  /\ error = NoError
  /\ nextCalls = <<>>
  /\ handler = "none"

NextServer ==
  \/ EnsureIsAdmin
  \/ Route
  \/ ErrorHandler

SpecHttp == InitServer /\ [][NextServer]_vars

\* ------------------------------------------------------------------ claims
IsPrefix(s, t) == Len(s) <= Len(t) /\ \A k \in 1..Len(s) : s[k] = t[k]

\* Whether no restore() call of the current pass returned retry = true.
NoRetry == \A k \in 1..Len(passRetry) : ~passRetry[k]

\* A pass is over: every collection was visited and the loop test is next.
PassOver == pc = "while" /\ pass > 0

\* The iteration cap of the specification: the total record count.
PassCap == NumRecords

\* C1: the pass loop ends after a bounded number of passes: with a pass
\* without retry request, or when the maximum iteration count (the total
\* record count) is reached; no pass beyond the cap is ever started.
C1_PassLoopBounded == pass <= PassCap

\* C2: cleanUp() is called at most once on each collection, in declaration
\* order, and every collection was cleaned up before the pass loop starts
\* and before the first restore() call; it is never called in the pass loop.
C2_CleanUpOnceBeforeRestore ==
  /\ IsPrefix(cleanUpLog, collections)
  /\ (pc \in {"while", "for", "done"} \/ pass > 0
      \/ \E c \in Collections : restoreCount[c] > 0)
       => cleanUpLog = collections

C2_Witness == pc = "done" /\ pass = 2 /\ cleanUpLog = collections

\* C3: in each pass restore() is called at most once on each collection, in
\* declaration order; a pass that ends has called it on every collection,
\* and every call returned, whatever the earlier calls of the pass returned.
C3_RestoreAllInOrder ==
  /\ IsPrefix(passLog, collections)
  /\ Len(passRetry) <= Len(passLog)
  /\ PassOver => passLog = collections /\ Len(passRetry) = NumCollections
  /\ \A c \in Collections :
       restoreCount[c] =
         IF pass = 0 THEN 0
         ELSE pass - 1 + (IF \E k \in 1..Len(passLog) : passLog[k] = c THEN 1 ELSE 0)

C3_Witness ==
  /\ PassOver
  /\ passLog = collections
  /\ passRetry[1]
  /\ ~passRetry[NumCollections]

\* C4: when a pass is over, stop holds iff no restore() call of that pass
\* returned retry = true; the loop test then ends the run if stop holds and
\* starts the next pass if not.
C4_StopIffNoRetryInPass ==
  /\ [](PassOver => (stop <=> NoRetry))
  /\ [][pc = "while" =>
          IF stop THEN pc' = "done" /\ pass' = pass
                  ELSE pc' = "for" /\ pass' = pass + 1]_vars

C4_Witness == pc = "done" /\ pass = 2 /\ NoRetry /\ stop

\* C5: an error raised by restore() ends the run in the failed state at
\* once: no step is taken after an error, so no restore() call follows it.
C5_RestoreErrorAborts ==
  /\ [](err # "none" => pc = "failed")
  /\ [](pc = "done" => err = "none")
  /\ [][err = "none" /\ pc # "failed"]_vars

C5_Witness ==
  /\ err = "restore"
  /\ pc = "failed"
  /\ pass = 2
  /\ Len(passLog) = 1

\* The orders the collections of a chain may be declared in.
ChainOrders ==
  {p \in [1..NumCollections -> Collections] :
     \A a \in 1..NumCollections, b \in 1..NumCollections : p[a] = p[b] => a = b}

\* The records of the first collection of the chain depend on nothing, the
\* records of each other collection on records of the one before it.
IsChain(p) ==
  \A k \in 1..NumCollections : \A r \in Records :
    owner[r] = p[k] =>
      \/ ref[r] = NoRef
      \/ k > 1 /\ ref[r] \in Records /\ owner[ref[r]] = p[k - 1]

Chain == \E p \in ChainOrders : IsChain(p)

AllApplied == \A r \in Records : appliedPass[r] # 0

\* C6: for a chain of the N collections, in any declaration order, no pass
\* beyond the N-th is started, the N-th pass ends with stop, and the run
\* ends with every record applied.
C6_ChainConvergesInNPasses ==
  \/ /\ pass <= NumCollections
     /\ (PassOver /\ pass = NumCollections => stop)
     /\ (pc = "done" => AllApplied)
  \/ ~Chain

C6_Witness ==
  /\ Chain
  /\ pc = "done"
  /\ pass = NumCollections
  /\ \E r \in Records : appliedPass[r] = NumCollections

\* Record u of a collection listed earlier references record r of a
\* collection listed later; no other record has a reference.
Deferred(u, r) ==
  /\ owner[u] < owner[r]
  /\ ref[u] = r
  /\ \A x \in Records : x # u => ref[x] = NoRef

\* C7: u is deferred in pass 1 (its restorer returns retry = true and u is
\* not applied), r is applied in pass 1, u is applied in pass 2, and the
\* run stops after pass 2.
C7_DeferredThenApplied ==
  \A u \in Records, r \in Records :
    Deferred(u, r) =>
      /\ (pass = 1 /\ Len(passRetry) >= owner[u]) =>
           passRetry[owner[u]] /\ appliedPass[u] = 0
      /\ (pass = 1 /\ Len(passRetry) >= owner[r]) => appliedPass[r] = 1
      /\ (PassOver /\ pass = 1) => ~stop
      /\ (pass = 2 /\ Len(passRetry) >= owner[u]) => appliedPass[u] = 2
      /\ (PassOver /\ pass = 2) => stop
      /\ pass <= 2
      /\ pc = "done" => pass = 2 /\ appliedPass[u] = 2 /\ appliedPass[r] = 1

C7_Witness ==
  \E u \in Records, r \in Records :
    Deferred(u, r) /\ pc = "done" /\ appliedPass[u] = 2 /\ appliedPass[r] = 1

NoRefs == \A r \in Records : ref[r] = NoRef

\* C8: when no record has a Dependency Reference, every restore() call
\* returns false, no second pass is started, and the run ends after one
\* pass with exactly one restore() call per collection.
C8_NoRefsOnePass ==
  NoRefs =>
    /\ NoRetry
    /\ pass <= 1
    /\ \A c \in Collections : restoreCount[c] <= 1
    /\ pc = "done" => pass = 1 /\ \A c \in Collections : restoreCount[c] = 1

C8_Witness ==
  /\ NoRefs
  /\ pc = "done"
  /\ \A c \in Collections : restoreCount[c] = 1

\* C9: restore() of SnapshotClient requests the diff of the stored snapshot
\* once, and sends schemaApply iff the diff is not undefined: once, with the
\* diff it got.
C9_RestoreAppliesIffDiff ==
  lastOp = "restore" =>
    /\ Len(diffCalls) <= 1
    /\ Len(lastDiff) <= Len(diffCalls)
    /\ lastLog # <<>> => Len(diffCalls) = 1 /\ Len(lastDiff) = 1
    /\ applyCalls = IF lastDiff # <<>> /\ lastDiff[1] # Undefined
                      THEN <<lastDiff[1]>> ELSE <<>>

C9_Witness ==
  /\ lastOp = "restore"
  /\ Len(applyCalls) = 1
  /\ applyCalls = lastDiff
  /\ lastLog = <<"Changes applied">>

\* C10: plan() sends no schemaApply, and leaves the schema of the live
\* instance and the stored snapshot as they are.
C10_PlanAppliesNothing ==
  /\ [](lastOp = "plan" => applyCalls = <<>>)
  /\ [][SnapshotPlan =>
          /\ UNCHANGED <<disk, remote, driverVars, recordVars>>
          /\ applyCalls' = <<>>]_vars

C10_Witness ==
  /\ lastOp = "plan"
  /\ Len(lastDiff) = 1
  /\ lastDiff[1] # Undefined
  /\ Len(lastLog) = 3

\* C11 as stated: when the diff is undefined, plan() logs zero changes for
\* each of collections, fields and relations.
C11_PlanLogsZeroCounts ==
  (lastOp = "plan" /\ lastDiff = <<Undefined>>) => planCounts = <<0, 0, 0>>

\* C11, amended: when the diff is undefined, plan() logs the one line 'No
\* changes to apply' and no count; it logs the three counts of the diff,
\* for collections, fields and relations, when the diff is not undefined.
C11_PlanLogsNoChanges ==
  (lastOp = "plan" /\ Len(lastDiff) = 1) =>
    IF lastDiff[1] = Undefined
      THEN lastLog = <<"No changes to apply">> /\ planCounts = <<>>
      ELSE /\ Len(lastLog) = 3
           /\ planCounts = <<Len(lastDiff[1].diff.collections),
                             Len(lastDiff[1].diff.fields),
                             Len(lastDiff[1].diff.relations)>>

C11_Witness ==
  /\ lastOp = "plan"
  /\ lastDiff = <<Undefined>>
  /\ lastLog = <<"No changes to apply">>
  /\ planCounts = <<>>

\* How often entry e occurs in the list q.
Count(q, e) == Cardinality({k \in 1..Len(q) : q[k] = e})

\* The lists a and b hold the same entries, each as often.
SameEntries(a, b) ==
  /\ Len(a) = Len(b)
  /\ \A k \in 1..Len(a) : Count(a, a[k]) = Count(b, a[k])

SameStructure(x, y) ==
  /\ x.version = y.version
  /\ SameEntries(x.collections, y.collections)
  /\ SameEntries(x.fields, y.fields)
  /\ SameEntries(x.relations, y.relations)

\* The snapshot dump() just saved, saved in mode split and loaded back in
\* that mode.
RoundTrip(split) ==
  loadFrom(IF split = splitFiles THEN disk
           ELSE saveData(disk, getSnapshot, split).disk, split)

\* C12: a snapshot saved and loaded back in split-file mode has the same
\* info and the same collections, fields and relations, none lost or
\* merged, as the snapshot saved and loaded back in single-file mode.
C12_SplitRoundTrip ==
  lastOp = "dump" => SameStructure(RoundTrip(TRUE), RoundTrip(FALSE))

\* C13: the count dump() gets from saveData is the number of files under
\* dumpPath after the save: 1 in single-file mode, 1 plus the numbers of
\* collections, fields and relations in split-file mode.
C13_DumpCountsFiles ==
  lastOp = "dump" =>
    /\ numberOfFiles = Cardinality(DOMAIN disk)
    /\ numberOfFiles =
         IF splitFiles
           THEN 1 + Len(remote.collections) + Len(remote.fields)
                  + Len(remote.relations)
           ELSE 1

\* C14: the calls of a restore run are sequential: at most one cleanUp(),
\* restore() or schema restore call is in flight at any time, and none is
\* in flight when run makes the next one.
C14_OneCallInFlight == inflight = 0 /\ inFlightMax <= 1

C14_Witness ==
  /\ pc = "done"
  /\ pass = 2
  /\ inFlightMax = 1
  /\ \A c \in Collections : restoreCount[c] = 2

\* Whether a collection restorer was called.
RestorerCalled ==
  cleanUpLog # <<>> \/ passLog # <<>> \/ \E c \in Collections : restoreCount[c] > 0

\* C15: no cleanUp() or restore() is called before the schema restore has
\* completed, and none at all when the schema restore raised an error.
C15_SchemaRestoreFirst ==
  /\ pc = "schema" => ~RestorerCalled /\ lastOp = "none"
  /\ RestorerCalled => lastOp = "restore" /\ err # "schema"
  /\ err = "schema" => ~RestorerCalled /\ pc = "failed" /\ pass = 0

C15_Witness ==
  /\ err = "schema"
  /\ pc = "failed"
  /\ lastOp = "restore"
  /\ ~RestorerCalled

\* C16: the number logged at the start of the k-th pass is k.
C16_IterationLogged == \A k \in 1..Len(iterLog) : iterLog[k] = k

\* The files of snapshot data in the layout of the mode.
FilesOf(data, split) ==
  IF split THEN decomposeData(data)
  ELSE <<[path |-> topFile(SNAPSHOT_JSON), content |-> data]>>

\* C17: after dump() the dump directory holds the files of the snapshot
\* just saved, in the layout of the current mode, and no other file.
C17_NoStaleFile ==
  lastOp = "dump" =>
    LET files == FilesOf(remote, splitFiles) IN
    /\ DOMAIN disk = {files[k].path : k \in 1..Len(files)}
    /\ \A p \in DOMAIN disk :
         \E k \in 1..Len(files) : files[k].path = p /\ files[k].content = disk[p]

C17_Witness ==
  /\ lastOp = "dump"
  /\ splitFiles
  /\ numberOfFiles > 1
  /\ \E p \in before : p.dir = FIELDS_DIR /\ p \notin DOMAIN disk

\* The request has an accountability with a user; its admin flag is truthy.
UserPresent ==
  req.accountability = "object" /\ req.user \notin {"undefined", "null"}
AdminTruthy == req.admin \in {"true", "'id'"}

\* C18: ensureIsAdminHandler calls next once: with a 401 error when the
\* request has no accountability or no user, with a 403 error when it has
\* a user and its admin flag is falsy, with no error only when it has a
\* user and the flag is truthy; the route is reached by such requests only.
C18_AdminOnly ==
  /\ handler = "ensureIsAdminHandler" =>
       /\ Len(nextCalls) = 1
       /\ nextCalls[1].statusCode =
            IF ~UserPresent THEN 401 ELSE IF ~AdminTruthy THEN 403 ELSE 0
       /\ nextCalls[1] = NoError <=> UserPresent /\ AdminTruthy
       /\ nextCalls[1] # NoError => isHttpError(nextCalls[1])
  /\ pc = "route" => UserPresent /\ AdminTruthy

C18_Witness ==
  /\ handler = "ensureIsAdminHandler"
  /\ UserPresent
  /\ req.user = "0"
  /\ req.admin = "0"
  /\ nextCalls = <<createError(403, "You do not have permission to access this.")>>

\* C19: errorHandler writes at most one response: when the headers were
\* sent it passes the error to next and writes nothing; otherwise it does
\* not call next, sets the status to the statusCode of an HTTP error and to
\* 500 for another error, and sends a body with the message of the error.
C19_ErrorAnsweredOnce ==
  /\ Len(res.body) <= 1
  /\ handler = "errorHandler" =>
       IF resAtCall.headersSent
         THEN nextCalls = <<error>> /\ res = resAtCall
         ELSE /\ nextCalls = <<>>
              /\ res.headersSent
              /\ res.statusCode =
                   IF error.name = "HttpError" THEN error.statusCode ELSE 500
              /\ res.body = <<[message |-> error.message]>>

C19_Witness ==
  /\ handler = "errorHandler"
  /\ ~resAtCall.headersSent
  /\ error.name = "Error"
  /\ error.statusCode = 404
  /\ res.statusCode = 500
  /\ res.body = <<[message |-> "'m'"]>>

====
